---- MODULE Spec2Model ----
(***************************************************************************)
(* Room/session lifecycle manager and quiz engine of the quiz-battle       *)
(* server (src/server/index.js).  Every socket event handler and every     *)
(* timer callback is one atomic action: Node runs them to completion on a  *)
(* single thread.  Handlers are operators on a record S of the server's    *)
(* state, so that a handler calling another (handleOwnerRoomCreation ->    *)
(* the disconnect handler, player_ready -> startQuiz -> nextQuestion ->    *)
(* endQuiz) is one step.                                                   *)
(***************************************************************************)
EXTENDS Integers, Sequences, FiniteSets, TLC

\* ---------------------------------------------------------------- bounds
MaxSock == 3
MaxEvents == 4
MaxGraceEvents == 3
MaxQuizEvents == 8
MaxRoomEvents == 3
MaxLearnEvents == 3
MaxHistory == 1
MaxTimers == 2
MaxRound == 3
MaxScore == 230

\* ------------------------------------------------------------- constants
BaseScore == 100
maxReconnectAttempts == 5
MaxAsked == 3
MaxPending == 1
NumQuestions == 2
CorrectAnswer == 1

Sockets == 1..MaxSock
RoomIds == {"R1", "R2"}
\* the room the single-room specifications address
Lobby == {"R1"}
Names == {"Aki", "Sora"}
Roles == {"owner", "guest"}

\* null for socket.roomId / socket.playerName / socket.role
Null == "null"
\* selectedOption null, a score that is NaN, a score read from a missing key
NoOption == 0 - 1
NaN == 0 - 1
Undefined == 0 - 2

VARIABLES
  rooms,                \* Map roomId -> room                     (index.js:26)
  ownerSessions,        \* Map ownerName -> session               (index.js:29)
  transitioningOwners,  \* Map roomId -> {ownerName}              (index.js:33)
  graceTimers,          \* pending cleanupTimer count per roomId  (index.js:288)
  advanceTimers,        \* pending round-advance timers           (index.js:755)
  sock,                 \* per connection: open, roomId, playerName, role
  emitted,              \* what the last handler emitted, in order
  logged,               \* the console.log lines of the last handler
  crashed,              \* an uncaught exception ended the process
  last,                 \* the inbound event or timer of the last step
  budget,               \* inbound events the run may still process
  client                \* a browser's SocketManager             (part_001:2-11)

vars == <<rooms, ownerSessions, transitioningOwners, graceTimers, advanceTimers,
          sock, emitted, logged, crashed, last, budget, client>>

\* ----------------------------------------------------------- Map helpers
MapSet(m, k, v) == (k :> v) @@ m

MapDel(m, k) == [x \in (DOMAIN m) \ {k} |-> m[x]]

EmptyMap == [x \in {} |-> 0]

\* Array.prototype.findIndex, 1-based: 0 when nothing matches
FirstIndex(hits) == IF hits = {} THEN 0 ELSE CHOOSE i \in hits : \A j \in hits : i <= j

\* ------------------------------------------------------------ state record
\* a server whose new rooms start with a running quiz
StartedRoom ==
  [players |-> <<>>,
   quizState |-> [isActive |-> TRUE, currentQuestion |-> 0,
                  scores |-> EmptyMap, round |-> 1, answers |-> EmptyMap],
   learningState |-> [currentCategory |-> "menu", scrollPosition |-> EmptyMap,
                      isActive |-> FALSE, selectedStory |-> EmptyMap]]

NewRoom ==
  [players |-> <<>>,
   quizState |-> [isActive |-> FALSE, currentQuestion |-> 0,
                  scores |-> EmptyMap, round |-> 0, answers |-> EmptyMap],
   learningState |-> [currentCategory |-> "menu", scrollPosition |-> EmptyMap,
                      isActive |-> FALSE, selectedStory |-> EmptyMap]]

Emit(S, e) == [S EXCEPT !.emitted = Append(@, e)]

Log(S, tag) == [S EXCEPT !.logged = @ \cup {tag}]

ToSocket(ev, s, data) == [ev |-> ev, kind |-> "socket", target |-> <<s>>, data |-> data]

ToRoom(ev, r, data) == [ev |-> ev, kind |-> "room", target |-> <<r>>, data |-> data]

ToOthers(ev, r, s, data) == [ev |-> ev, kind |-> "others", target |-> <<r, s>>, data |-> data]

StatusOf(players) ==
  [players |-> [i \in 1..Len(players) |->
                  [name |-> players[i].name, ready |-> players[i].ready,
                   role |-> players[i].role]],
   canStart |-> Len(players) = 2]

\* a server whose rooms.delete(roomId) is missing
KeepRoom(S, r) == S

\* rooms.delete(roomId): the room object lives on in the closures of its pending
\* round-advance timers, which from now on act on an object no longer in the store.
\* A transition record outlives the room; roomGone notes that the room its grace
\* timer was scheduled for has left the store.
DeleteRoom(S, r) ==
  [S EXCEPT !.rooms = MapDel(@, r),
            !.transitioningOwners = [k \in DOMAIN @ |->
               IF k = r THEN [@[k] EXCEPT !.roomGone = TRUE] ELSE @[k]],
            !.advanceTimers = [k \in DOMAIN @ |->
               IF k = <<r, FALSE>> THEN @[<<r, FALSE>>] + @[<<r, TRUE>>]
               ELSE IF k = <<r, TRUE>> THEN 0 ELSE @[k]]]

ScoreOf(room, id) ==
  IF id \in DOMAIN room.quizState.scores THEN room.quizState.scores[id] ELSE Undefined

\* ------------------------------------------------------------- quiz engine
\* Array.prototype.sort((a, b) => b.score - a.score): stable, descending
RECURSIVE InsertDesc(_, _)
InsertDesc(sorted, x) ==
  IF sorted = <<>> THEN <<x>>
  ELSE IF Head(sorted).score >= 0 /\ x.score >= 0 /\ x.score > Head(sorted).score
       THEN <<x>> \o sorted
       ELSE <<Head(sorted)>> \o InsertDesc(Tail(sorted), x)

RECURSIVE SortDesc(_)
SortDesc(seq) ==
  IF seq = <<>> THEN <<>>
  ELSE InsertDesc(SortDesc(SubSeq(seq, 1, Len(seq) - 1)), seq[Len(seq)])

endQuiz(S, r) ==
  IF r \notin DOMAIN S.rooms THEN S
  ELSE
    LET room == S.rooms[r]
        finalResults == SortDesc([i \in 1..Len(room.players) |->
                          [playerName |-> room.players[i].name,
                           score |-> ScoreOf(room, room.players[i].id)]])
        S1 == [S EXCEPT !.rooms[r].quizState.isActive = FALSE]
        winner == IF finalResults = <<>> THEN Undefined ELSE finalResults[1]
        S2 == Emit(S1, ToRoom("quiz_finished", r,
                              [results |-> finalResults, winner |-> winner]))
    IN  \* winner.playerName of an undefined winner throws
        IF finalResults = <<>> THEN [S2 EXCEPT !.crashed = TRUE]
        ELSE Log(S2, "quiz_finished")

\* a question source that never runs out
EndlessQuestions(S, r) ==
  IF r \notin DOMAIN S.rooms THEN S
  ELSE
    LET S1 == [S EXCEPT !.rooms[r].quizState.currentQuestion = 1,
                        !.rooms[r].quizState.answers = EmptyMap]
    IN Log(Emit(S1, ToRoom("new_question", r, <<S.rooms[r].quizState.round>>)),
           "new_question")

nextQuestion(S, r) ==
  IF r \notin DOMAIN S.rooms THEN S
  ELSE
    LET round == S.rooms[r].quizState.round IN
    IF round \notin 1..NumQuestions THEN endQuiz(S, r)
    ELSE
      LET S1 == [S EXCEPT !.rooms[r].quizState.currentQuestion = round,
                          !.rooms[r].quizState.answers = EmptyMap]
      IN Log(Emit(S1, ToRoom("new_question", r, <<round>>)), "new_question")

startQuiz(S, r) ==
  IF r \notin DOMAIN S.rooms THEN S
  ELSE nextQuestion([S EXCEPT !.rooms[r].quizState.isActive = TRUE,
                              !.rooms[r].quizState.round = 1], r)

\* scores[id] += score: a missing key reads undefined, and undefined + n is NaN
AddScore(scores, id, score) ==
  IF id \in DOMAIN scores /\ scores[id] # NaN
  THEN [scores EXCEPT ![id] = @ + score]
  ELSE MapSet(scores, id, NaN)

AwardOf(answer) ==
  LET timeBonus == IF answer.timeLeft > 0 THEN answer.timeLeft ELSE 0
  IN BaseScore + timeBonus

IsCorrect(answers, id) ==
  id \in DOMAIN answers /\ answers[id].option = CorrectAnswer

RECURSIVE RevealFrom(_, _, _, _, _)
RevealFrom(players, answers, scores, results, i) ==
  IF i > Len(players) THEN [scores |-> scores, results |-> results]
  ELSE
    LET p == players[i]
        ok == IsCorrect(answers, p.id)
        sc == IF ok THEN AddScore(scores, p.id, AwardOf(answers[p.id])) ELSE scores
        res == [playerName |-> p.name,
                selectedOption |-> IF p.id \in DOMAIN answers
                                   THEN answers[p.id].option ELSE NoOption,
                isCorrect |-> ok,
                score |-> IF p.id \in DOMAIN sc THEN sc[p.id] ELSE Undefined]
    IN RevealFrom(players, answers, sc, Append(results, res), i + 1)

revealAnswers(S, r) ==
  IF r \notin DOMAIN S.rooms THEN S
  ELSE
    LET room == S.rooms[r] IN
    \* question.correctAnswer of a null question throws
    IF room.quizState.currentQuestion = 0 THEN [S EXCEPT !.crashed = TRUE]
    ELSE
      LET out == RevealFrom(room.players, room.quizState.answers,
                            room.quizState.scores, <<>>, 1)
          S1 == [S EXCEPT !.rooms[r].quizState.scores = out.scores]
          S2 == Log(Emit(S1, ToRoom("question_result", r, out.results)), "question_result")
      IN [S2 EXCEPT !.advanceTimers[<<r, TRUE>>] = @ + 1]

\* ------------------------------------------------------------ disconnect
\* a server without the grace window
NeverTransitioning(S, s) == FALSE

\* t && socket.role === 'owner' && t.ownerName === socket.playerName
isOwnerTransitioning(S, s) ==
  /\ S.sock[s].roomId \in DOMAIN S.transitioningOwners
  /\ S.sock[s].role = "owner"
  /\ S.transitioningOwners[S.sock[s].roomId].ownerName = S.sock[s].playerName

\* a server that forgets the owner's session whichever room it points at
DropAnySession(S, s) ==
  IF /\ S.sock[s].role = "owner" /\ S.sock[s].playerName # Null
     /\ S.sock[s].playerName \in DOMAIN S.ownerSessions
  THEN [S EXCEPT !.ownerSessions = MapDel(@, S.sock[s].playerName)]
  ELSE S

\* the owner's session is deleted if it still points at the room the
\* connection is bound to (index.js:599-605 and 619-625)
dropSession(S, s) ==
  IF /\ S.sock[s].role = "owner" /\ S.sock[s].playerName # Null
     /\ S.sock[s].playerName \in DOMAIN S.ownerSessions
     /\ S.ownerSessions[S.sock[s].playerName].currentRoomId = S.sock[s].roomId
  THEN [S EXCEPT !.ownerSessions = MapDel(@, S.sock[s].playerName)]
  ELSE S

disconnectHandler(S, s) ==
  LET c == S.sock[s]
      r == c.roomId
  IN
  IF r = Null \/ r \notin DOMAIN S.rooms THEN S
  ELSE
    IF isOwnerTransitioning(S, s) THEN Log(S, "disconnect_ignored")
    ELSE
      LET room == S.rooms[r]
          idx == FirstIndex({i \in 1..Len(room.players) : room.players[i].id = s})
          NotThisSocket(p) == p.id # s
          S1 == dropSession(S, s)
          S2 == [S1 EXCEPT
                   !.rooms[r].players = SelectSeq(@, NotThisSocket),
                   !.rooms[r].quizState.scores = MapDel(@, s)]
      IN
      IF S2.rooms[r].players = <<>>
      THEN dropSession(Log(DeleteRoom(S2, r), "room_deleted"), s)
      ELSE
        LET S3 == IF idx # 0
                  THEN Emit(S2, ToRoom("player_disconnected", r,
                                       <<room.players[idx].name, room.players[idx].role>>))
                  ELSE S2
        IN Emit(S3, ToRoom("room_status", r, StatusOf(S2.rooms[r].players)))

\* socket.disconnect(true) from the server: the connection closes and its
\* 'disconnect' handler runs at once
RECURSIVE DisconnectGuests(_, _, _)
DisconnectGuests(S, players, i) ==
  IF i > Len(players) THEN S
  ELSE
    LET p == players[i]
        S1 == IF p.role = "guest" /\ S.sock[p.id].open
              THEN disconnectHandler([S EXCEPT !.sock[p.id].open = FALSE], p.id)
              ELSE S
    IN DisconnectGuests(S1, players, i + 1)

\* ------------------------------------------------- handleOwnerRoomCreation
\* a server that records the new room and drops the history
ForgetHistory(S, ownerName, newRoomId, previousRoomIds) ==
  [S EXCEPT !.ownerSessions =
     MapSet(@, ownerName, [currentRoomId |-> newRoomId, previousRoomIds |-> <<>>])]

\* ownerSessions.set(ownerName, {currentRoomId, previousRoomIds}) (index.js:73-77)
SetSession(S, ownerName, newRoomId, previousRoomIds) ==
  [S EXCEPT !.ownerSessions =
     MapSet(@, ownerName,
            [currentRoomId |-> newRoomId, previousRoomIds |-> previousRoomIds])]

handleOwnerRoomCreation(S, ownerName, newRoomId, s) ==
  LET has == ownerName \in DOMAIN S.ownerSessions
      old == IF has THEN S.ownerSessions[ownerName].currentRoomId ELSE Null
      prev == IF has THEN S.ownerSessions[ownerName].previousRoomIds ELSE <<>>
      closes == has /\ old # newRoomId /\ old \in DOMAIN S.rooms
      S1 == IF closes
            THEN LET A == Emit(S, ToOthers("room_closed_by_owner", old, s, <<ownerName, newRoomId>>))
                     B == DisconnectGuests(A, S.rooms[old].players, 1)
                     C == IF old \in DOMAIN B.rooms THEN DeleteRoom(B, old) ELSE B
                 IN Log(C, "old_room_closed")
            ELSE S
      prev1 == IF closes THEN Append(prev, old) ELSE prev
  IN SetSession(S1, ownerName, newRoomId, prev1)

\* ----------------------------------------------------------- join_room
\* players.find(p => p.name === playerName && p.role === role), as an index
PairIdx(players, playerName, role) ==
  FirstIndex({i \in 1..Len(players) :
                players[i].name = playerName /\ players[i].role = role})

HasPair(players, playerName, role) ==
  \E i \in 1..Len(players) : players[i].name = playerName /\ players[i].role = role

\* rooms.set(roomId, {...}) when the id is unseen (index.js:93-109)
GetOrCreateRoom(S, roomId) ==
  IF roomId \notin DOMAIN S.rooms
  THEN [S EXCEPT !.rooms = MapSet(@, roomId, NewRoom)] ELSE S

\* the duplicate-connection clean-up (index.js:113-125)
ReplaceExisting(S, roomId, playerName, role) ==
  LET players == S.rooms[roomId].players
      idx == PairIdx(players, playerName, role)
      NotThisPair(p) == ~(p.name = playerName /\ p.role = role)
  IN IF idx = 0 THEN S
     ELSE Log([S EXCEPT
                 !.rooms[roomId].players = SelectSeq(@, NotThisPair),
                 !.rooms[roomId].quizState.scores = MapDel(@, players[idx].id)],
              "replaced")

\* the emits that follow a successful join (index.js:152-178)
AnnounceJoin(S, s, roomId, playerName, role) ==
  LET now == S.rooms[roomId]
      notices ==
        <<ToSocket("room_joined", s, <<roomId, playerName, role>>),
          ToRoom("room_status", roomId, StatusOf(now.players)),
          ToSocket("learning_story_snapshot", s,
                   <<now.learningState.currentCategory, now.learningState.selectedStory>>)>>
        \o (IF Len(now.players) = 2 THEN <<ToRoom("match_found", roomId, <<>>)>> ELSE <<>>)
  IN Log([S EXCEPT !.emitted = @ \o notices], "joined")

\* the capacity check and the new participant (index.js:127-147)
AddPlayer(S, s, roomId, playerName, role) ==
  IF Len(S.rooms[roomId].players) >= 2
  THEN Log(Emit(S, ToSocket("room_full", s, <<>>)), "room_full")
  ELSE AnnounceJoin(
         [S EXCEPT
            !.rooms[roomId].players =
               Append(@, [id |-> s, name |-> playerName, role |-> role, ready |-> FALSE]),
            !.rooms[roomId].quizState.scores = MapSet(@, s, 0),
            !.sock[s].roomId = roomId,
            !.sock[s].playerName = playerName,
            !.sock[s].role = role],
         s, roomId, playerName, role)

joinRoom(S, s, roomId, playerName, role) ==
  AddPlayer(
    ReplaceExisting(
      GetOrCreateRoom(
        IF role = "owner" THEN handleOwnerRoomCreation(S, playerName, roomId, s) ELSE S,
        roomId),
      roomId, playerName, role),
    s, roomId, playerName, role)

\* --------------------------------------------------------- player_ready
playerReady(S, s) ==
  LET r == S.sock[s].roomId IN
  IF r = Null \/ r \notin DOMAIN S.rooms THEN S
  ELSE
    LET players == S.rooms[r].players
        idx == FirstIndex({i \in 1..Len(players) : players[i].id = s})
    IN
    IF idx = 0 THEN S
    ELSE
      LET S1 == [S EXCEPT !.rooms[r].players[idx].ready = TRUE]
          now == S1.rooms[r].players
          S2 == IF Len(now) = 2 /\ \A i \in 1..Len(now) : now[i].ready
                THEN Log(startQuiz(S1, r), "quiz_started") ELSE S1
      IN Emit(S2, ToRoom("room_status", r, StatusOf(S2.rooms[r].players)))

\* ------------------------------------------------------- learning events
\* a server whose Owner-only handlers check the room only
AnyoneOf(S, s, roomId) == roomId \in DOMAIN S.rooms

\* the guard the Owner-only handlers share (index.js:208-212)
OwnerOf(S, s, roomId) ==
  /\ S.sock[s].roomId # Null
  /\ S.sock[s].roomId = roomId
  /\ S.sock[s].role = "owner"
  /\ roomId \in DOMAIN S.rooms

learningCategoryChange(S, s, roomId, category) ==
  IF ~OwnerOf(S, s, roomId) THEN S
  ELSE Log(Emit([S EXCEPT !.rooms[roomId].learningState.currentCategory = category,
                          !.rooms[roomId].learningState.isActive = TRUE],
                ToOthers("learning_category_changed", roomId, s, <<category>>)),
           "category_changed")

learningScrollChange(S, s, roomId, category, scrollTop) ==
  IF ~OwnerOf(S, s, roomId) THEN S
  ELSE Emit([S EXCEPT !.rooms[roomId].learningState.scrollPosition =
                         MapSet(@, category, scrollTop)],
            ToOthers("learning_scroll_sync", roomId, s, <<category, scrollTop>>))

learningStoryChange(S, s, roomId, category, chapterId) ==
  IF ~OwnerOf(S, s, roomId) THEN S
  ELSE Log(Emit([S EXCEPT !.rooms[roomId].learningState.currentCategory = category,
                          !.rooms[roomId].learningState.selectedStory =
                             MapSet(@, category, chapterId)],
                ToOthers("learning_story_changed", roomId, s, <<category, chapterId>>)),
           "story_changed")

selectLearningMode(S, s, roomId) ==
  IF ~OwnerOf(S, s, roomId) THEN S
  ELSE Log(Emit([S EXCEPT !.rooms[roomId].learningState.isActive = TRUE,
                          !.rooms[roomId].learningState.currentCategory = "menu"],
                ToRoom("redirect_to_learning", roomId, <<>>)),
           "learning_mode")

selectQuizMode(S, s, roomId) ==
  IF ~OwnerOf(S, s, roomId) THEN S
  ELSE Log(Emit([S EXCEPT !.rooms[roomId].quizState.isActive = TRUE],
                ToRoom("redirect_to_matching", roomId, <<>>)),
           "quiz_mode")

\* ------------------------------------------------ proceed_to_mode_select
\* a server whose clearTimeout(cleanupTimer) is missing
KeepGraceTimer(S, roomId) == S

\* clearTimeout(existing.cleanupTimer)
ClearGraceTimer(S, roomId) ==
  IF S.graceTimers[roomId] > 0 THEN [S EXCEPT !.graceTimers[roomId] = @ - 1] ELSE S

proceedToModeSelect(S, s, roomId) ==
  IF ~OwnerOf(S, s, roomId) THEN S
  ELSE
    LET S1 == IF roomId \in DOMAIN S.transitioningOwners
              THEN ClearGraceTimer(S, roomId) ELSE S
        S2 == [S1 EXCEPT !.graceTimers[roomId] = @ + 1,
                         !.transitioningOwners =
                            MapSet(@, roomId, [ownerName |-> S.sock[s].playerName,
                                               roomGone |-> FALSE])]
    IN Log(Emit(S2, ToOthers("owner_proceeded_to_mode_select", roomId, s,
                             <<roomId, S.sock[s].playerName>>)),
           "transition_started")

\* the setTimeout callback of proceed_to_mode_select (index.js:288-319)
cleanupTimer(S, roomId) ==
  IF roomId \notin DOMAIN S.transitioningOwners THEN S
  ELSE IF roomId \notin DOMAIN S.rooms
  THEN [S EXCEPT !.transitioningOwners = MapDel(@, roomId)]
  ELSE
    LET info == S.transitioningOwners[roomId]
        players == S.rooms[roomId].players
        ownerIdx == FirstIndex({i \in 1..Len(players) :
                      players[i].role = "owner" /\ players[i].name = info.ownerName})
        S4 ==
          IF ownerIdx = 0 THEN S
          ELSE
            LET ownerPlayer == players[ownerIdx]
                S1 == [S EXCEPT
                         !.rooms[roomId].players =
                            SubSeq(@, 1, ownerIdx - 1) \o SubSeq(@, ownerIdx + 1, Len(@)),
                         !.rooms[roomId].quizState.scores = MapDel(@, ownerPlayer.id)]
                S2 == Emit(S1, ToRoom("player_disconnected", roomId,
                                      <<ownerPlayer.name, ownerPlayer.role>>))
                S3 == Emit(S2, ToRoom("room_status", roomId,
                                      StatusOf(S1.rooms[roomId].players)))
            IN Log(IF S1.rooms[roomId].players = <<>>
                   THEN Log(DeleteRoom(S3, roomId), "room_deleted") ELSE S3,
                   "owner_evicted")
    IN [S4 EXCEPT !.transitioningOwners = MapDel(@, roomId)]

\* ------------------------------------------------------ mode_select_join
\* a server that re-adds whoever asks
AlwaysReadd(players, role) == TRUE

\* sameRolePlayers.length === 0 && room.players.length < 2 (index.js:439-440)
CanReadd(players, role) ==
  /\ \A i \in 1..Len(players) : players[i].role # role
  /\ Len(players) < 2

modeSelectJoin(S0, s, roomId, playerName, role, recovery) ==
  LET S1 == [S0 EXCEPT !.sock[s].roomId = roomId,
                       !.sock[s].playerName = playerName,
                       !.sock[s].role = role]
  IN
  IF roomId \notin DOMAIN S1.rooms /\ ~recovery
  THEN Log(Emit(S1, ToSocket("room_not_found", s, <<>>)), "room_not_found")
  ELSE
    LET S2 == IF roomId \notin DOMAIN S1.rooms
              THEN Log([S1 EXCEPT !.rooms = MapSet(@, roomId, NewRoom)], "room_recreated")
              ELSE S1
        S3 == IF /\ role = "owner"
                 /\ roomId \in DOMAIN S2.transitioningOwners
                 /\ S2.transitioningOwners[roomId].ownerName = playerName
              THEN Log([ClearGraceTimer(S2, roomId) EXCEPT
                          !.transitioningOwners = MapDel(@, roomId)],
                       "transition_cleared")
              ELSE S2
        players == S3.rooms[roomId].players
        scores == S3.rooms[roomId].quizState.scores
        idx == FirstIndex({i \in 1..Len(players) :
                             players[i].name = playerName /\ players[i].role = role})
        player == [id |-> s, name |-> playerName, role |-> role, ready |-> FALSE]
        S4 ==
          IF idx # 0
          THEN LET oldId == players[idx].id IN
               Log([S3 EXCEPT
                      !.rooms[roomId].players[idx].id = s,
                      !.rooms[roomId].quizState.scores =
                         IF oldId \in DOMAIN scores
                         THEN MapDel(MapSet(scores, s, scores[oldId]), oldId)
                         ELSE scores],
                   "id_updated")
          ELSE IF recovery
          THEN Log([S3 EXCEPT !.rooms[roomId].players = Append(@, player)], "restored")
          ELSE IF CanReadd(players, role)
          THEN Log([S3 EXCEPT !.rooms[roomId].players = Append(@, player)], "readded")
          ELSE Log(S3, "stale_identity")
        S5 == Emit(S4, ToSocket("mode_select_connected", s,
                     [i \in 1..Len(S4.rooms[roomId].players) |->
                        [name |-> S4.rooms[roomId].players[i].name,
                         role |-> S4.rooms[roomId].players[i].role]]))
    IN Emit(S5, ToOthers("player_reconnected", roomId, s, <<playerName, role>>))

\* ------------------------------------------------------------ leave_room
leaveRoom(S, s, roomId) ==
  IF S.sock[s].roomId = Null \/ S.sock[s].roomId # roomId THEN S
  ELSE
    LET NotThisSocket(p) == p.id # s
        S1 == IF roomId \notin DOMAIN S.rooms THEN S
              ELSE
                LET A == [S EXCEPT !.rooms[roomId].players = SelectSeq(@, NotThisSocket)]
                    B == Emit(A, ToOthers("player_left", roomId, s,
                                          <<S.sock[s].playerName, S.sock[s].role>>))
                IN IF A.rooms[roomId].players = <<>>
                   THEN Log(DeleteRoom(B, roomId), "room_deleted") ELSE B
    IN Log([S1 EXCEPT !.sock[s].roomId = Null,
                      !.sock[s].playerName = Null,
                      !.sock[s].role = Null],
           "left")

\* --------------------------------------------------------- submit_answer
submitAnswer(S, s, selectedOption, timeLeft) ==
  LET r == S.sock[s].roomId IN
  IF r = Null \/ r \notin DOMAIN S.rooms THEN S
  ELSE IF ~S.rooms[r].quizState.isActive THEN S
  ELSE
    LET S1 == [S EXCEPT !.rooms[r].quizState.answers =
                 MapSet(@, s, [option |-> selectedOption, timeLeft |-> timeLeft])]
    IN IF Cardinality(DOMAIN S1.rooms[r].quizState.answers) = 2
       THEN revealAnswers(S1, r)
       ELSE S1

\* the setTimeout callback of revealAnswers (index.js:755-758): round++ on the
\* room object the closure holds (inStore: that object is still the one in the
\* store), then nextQuestion on whatever the store holds under roomId
advanceTimer(S, roomId, inStore) ==
  LET S1 == [S EXCEPT !.advanceTimers[<<roomId, inStore>>] = @ - 1]
      S2 == IF inStore THEN [S1 EXCEPT !.rooms[roomId].quizState.round = @ + 1] ELSE S1
  IN nextQuestion(S2, roomId)

\* ------------------------------------------- client: class SocketManager
\* the constructor (part_001:3-11).  sent is what went to socket.emit, asked
\* the server events emit() was called with while a socket existed
NewClient ==
  [socket |-> FALSE, isConnected |-> FALSE, roomId |-> Null, playerName |-> Null,
   reconnectAttempts |-> 0, reconnectPending |-> 0, sent |-> <<>>, asked |-> <<>>]

IsCustom(event) == event \in {"custom:connected", "custom:disconnected", "custom:status_changed"}

\* emit as first defined (part_001:133-147): it registers a 'connect'
\* listener for an event it cannot send.  The class body defines emit again
\* below, and the later definition is the method the class has.
emitFirst(C, event) ==
  IF ~C.socket THEN C
  ELSE IF ~C.isConnected THEN [C EXCEPT !.asked = Append(@, event)]
  ELSE [C EXCEPT !.asked = Append(@, event), !.sent = Append(@, event)]

\* emit as defined last (part_001:150-165): custom events go to the local
\* handlers, any other event to socket.emit if the socket is connected
emit(C, event) ==
  IF IsCustom(event) THEN C
  ELSE
    LET C1 == IF C.socket THEN [C EXCEPT !.asked = Append(@, event)] ELSE C
    IN IF C.socket /\ C.isConnected THEN [C1 EXCEPT !.sent = Append(@, event)] ELSE C1

\* updateConnectionStatus (part_001:168-191)
updateConnectionStatus(C) == emit(C, "custom:status_changed")

\* the 'connect' listener (part_001:49-55)
onConnect(C) ==
  emit(updateConnectionStatus([C EXCEPT !.isConnected = TRUE, !.reconnectAttempts = 0]),
       "custom:connected")

\* the 'disconnect' listener (part_001:65-82)
onDisconnect(C, reason) ==
  LET C1 == emit(updateConnectionStatus([C EXCEPT !.isConnected = FALSE]),
                 "custom:disconnected")
  IN IF reason = "io server disconnect"
     THEN [C1 EXCEPT !.reconnectPending = @ + 1] ELSE C1

\* the setTimeout callback of the 'disconnect' listener (part_001:74-80)
reconnectTimer(C) ==
  LET C1 == [C EXCEPT !.reconnectPending = @ - 1]
  IN IF C1.reconnectAttempts < maxReconnectAttempts
     THEN [C1 EXCEPT !.reconnectAttempts = @ + 1] ELSE C1

\* initialize (part_001:14-42): a connected old socket is disconnected, which
\* runs its 'disconnect' listener, and a new socket is created
initialize(C) ==
  LET C1 == IF C.socket /\ C.isConnected THEN onDisconnect(C, "io client disconnect") ELSE C
  IN [C1 EXCEPT !.socket = TRUE, !.sent = <<>>, !.asked = <<>>]

\* joinRoom (part_001:194-210), for a room id and a name that are not empty
clientJoinRoom(C, roomId, playerName) ==
  emit([C EXCEPT !.roomId = roomId, !.playerName = playerName], "join_room")

\* leaveRoom (part_001:213-220)
clientLeaveRoom(C) ==
  IF C.roomId = Null THEN C
  ELSE [emit(C, "leave_room") EXCEPT !.roomId = Null, !.playerName = Null]

\* disconnect (part_001:223-231)
clientDisconnect(C) ==
  IF ~C.socket THEN C
  ELSE [clientLeaveRoom(C) EXCEPT !.socket = FALSE, !.isConnected = FALSE]

\* ---------------------------------------------------------------- inputs
Categories == {"menu", "hardware"}
ScrollTops == {120}
ChapterIds == {1}
Options == {0, CorrectAnswer, NoOption}
TimeLefts == {0 - 5, 10}

\* ----------------------------------------------------------------- state
St ==
  [rooms |-> rooms, ownerSessions |-> ownerSessions,
   transitioningOwners |-> transitioningOwners, graceTimers |-> graceTimers,
   advanceTimers |-> advanceTimers, sock |-> sock, crashed |-> crashed,
   emitted |-> <<>>, logged |-> {}]

\* the caps that keep the otherwise unbounded histories, timers, rounds and
\* scores finite
WithinBounds(S) ==
  /\ \A n \in DOMAIN S.ownerSessions : Len(S.ownerSessions[n].previousRoomIds) <= MaxHistory
  /\ \A k \in DOMAIN S.advanceTimers : S.advanceTimers[k] <= MaxTimers
  /\ \A r \in DOMAIN S.rooms :
       /\ S.rooms[r].quizState.round <= MaxRound
       /\ \A id \in DOMAIN S.rooms[r].quizState.scores :
            S.rooms[r].quizState.scores[id] <= MaxScore

\* s is the connection the event came from, 0 for a timer callback.  A run
\* processes at most `budget` inbound events; a negative budget is no limit.
Commit(S, ev, s) ==
  /\ IF s = 0 \/ budget < 0 THEN budget' = budget
     ELSE budget > 0 /\ budget' = budget - 1
  /\ WithinBounds(S)
  /\ rooms' = S.rooms
  /\ ownerSessions' = S.ownerSessions
  /\ transitioningOwners' = S.transitioningOwners
  /\ graceTimers' = S.graceTimers
  /\ advanceTimers' = S.advanceTimers
  /\ sock' = [u \in Sockets |-> [S.sock[u] EXCEPT !.used = @ \/ u = s]]
  /\ crashed' = S.crashed
  /\ emitted' = S.emitted
  /\ logged' = S.logged
  /\ last' = ev
  /\ client' = client

\* Connections that have sent nothing yet are interchangeable: the next one to
\* speak is the one with the lowest id.
Fresh(s) == sock[s].open /\ ~sock[s].used

Live(s) ==
  /\ ~crashed
  /\ sock[s].open
  /\ \A u \in Sockets : (u < s /\ Fresh(u)) => ~Fresh(s)

\* the server after start-up, every connection established and silent
Boot ==
  [rooms |-> EmptyMap, ownerSessions |-> EmptyMap, transitioningOwners |-> EmptyMap,
   graceTimers |-> [r \in RoomIds |-> 0],
   advanceTimers |-> [k \in RoomIds \X BOOLEAN |-> 0],
   sock |-> [s \in Sockets |->
               [open |-> TRUE, used |-> FALSE, roomId |-> Null, playerName |-> Null,
                role |-> Null]],
   crashed |-> FALSE, emitted |-> <<>>, logged |-> {}]

\* the state S, reached by events of the connections in `spoke`
StartFrom(S, spoke, b) ==
  /\ rooms = S.rooms
  /\ ownerSessions = S.ownerSessions
  /\ transitioningOwners = S.transitioningOwners
  /\ graceTimers = S.graceTimers
  /\ advanceTimers = S.advanceTimers
  /\ sock = [u \in Sockets |-> [S.sock[u] EXCEPT !.used = u \in spoke]]
  /\ crashed = S.crashed
  /\ emitted = <<>>
  /\ logged = {}
  /\ last = "init"
  /\ budget = b
  /\ client = NewClient

Init == StartFrom(Boot, {}, MaxEvents)

\* ---------------------------------------------------------------- actions
JoinRoom(s, roomId, playerName, role) ==
  /\ Live(s)
  /\ Commit(joinRoom(St, s, roomId, playerName, role),
            "join_room", s)

ModeSelectJoin(s, roomId, playerName, role, recovery) ==
  /\ Live(s)
  /\ Commit(modeSelectJoin(St, s, roomId, playerName, role, recovery),
            IF recovery THEN "mode_select_join_recovery" ELSE "mode_select_join", s)

LeaveRoom(s, roomId) ==
  /\ Live(s)
  /\ Commit(leaveRoom(St, s, roomId), "leave_room", s)

Disconnect(s) ==
  /\ Live(s)
  /\ Commit(disconnectHandler([St EXCEPT !.sock[s].open = FALSE], s),
            "disconnect", s)

ProceedToModeSelect(s, roomId) ==
  /\ Live(s)
  /\ Commit(proceedToModeSelect(St, s, roomId),
            "proceed_to_mode_select", s)

CleanupTimerFires(roomId) ==
  /\ ~crashed
  /\ graceTimers[roomId] > 0
  /\ Commit(cleanupTimer([St EXCEPT !.graceTimers[roomId] = @ - 1], roomId),
            "cleanup_timer", 0)

PlayerReady(s) ==
  /\ Live(s)
  /\ Commit(playerReady(St, s), "player_ready", s)

SelectQuizMode(s, roomId) ==
  /\ Live(s)
  /\ Commit(selectQuizMode(St, s, roomId), "select_quiz_mode", s)

SelectLearningMode(s, roomId) ==
  /\ Live(s)
  /\ Commit(selectLearningMode(St, s, roomId),
            "select_learning_mode", s)

LearningCategoryChange(s, roomId, category) ==
  /\ Live(s)
  /\ Commit(learningCategoryChange(St, s, roomId, category),
            "learning_category_change", s)

LearningScrollChange(s, roomId, category, scrollTop) ==
  /\ Live(s)
  /\ Commit(learningScrollChange(St, s, roomId, category, scrollTop),
            "learning_scroll_change", s)

LearningStoryChange(s, roomId, category, chapterId) ==
  /\ Live(s)
  /\ Commit(learningStoryChange(St, s, roomId, category, chapterId),
            "learning_story_change", s)

SubmitAnswer(s, selectedOption, timeLeft) ==
  /\ Live(s)
  /\ Commit(submitAnswer(St, s, selectedOption, timeLeft),
            "submit_answer", s)

AdvanceTimerFires(roomId, inStore) ==
  /\ ~crashed
  /\ advanceTimers[<<roomId, inStore>>] > 0
  /\ Commit(advanceTimer(St, roomId, inStore), "advance_timer", 0)

\* Room lifecycle in one room, from the empty server: any connection may pass
\* any display name and role.
Next ==
  \/ \E s \in Sockets, r \in Lobby, n \in Names, ro \in Roles : JoinRoom(s, r, n, ro)
  \/ \E s \in Sockets, r \in Lobby, n \in Names, ro \in Roles, rec \in BOOLEAN :
       ModeSelectJoin(s, r, n, ro, rec)
  \/ \E s \in Sockets, r \in Lobby : LeaveRoom(s, r)
  \/ \E s \in Sockets : Disconnect(s)
  \/ \E s \in Sockets, r \in Lobby : ProceedToModeSelect(s, r)
  \/ \E r \in Lobby : CleanupTimerFires(r)

Spec == Init /\ [][Next]_vars

\* ------------------------------------------------- grace-window scenarios
Quiet(S) == [S EXCEPT !.emitted = <<>>, !.logged = {}]

\* Owner Aki and guest Sora have joined room R1 on connections 1 and 2
Matched ==
  Quiet(joinRoom(Quiet(joinRoom(Boot, 1, "R1", "Aki", "owner")), 2, "R1", "Sora", "guest"))

\* ... both were ready, Aki answered question 1 correctly with 10 s left, Sora
\* wrongly, and the round-advance timer has fired
Scored ==
  LET ready == Quiet(playerReady(Quiet(playerReady(Matched, 1)), 2))
      answered == Quiet(submitAnswer(Quiet(submitAnswer(ready, 1, CorrectAnswer, 10)), 2, 0, 10))
  IN Quiet(advanceTimer(answered, "R1", TRUE))

InitGrace ==
  \/ StartFrom(Matched, {1, 2}, MaxGraceEvents)
  \/ StartFrom(Scored, {1, 2}, MaxGraceEvents)

\* The lifecycle events of one room, from a matched room (with and without
\* scores): the owner's move to the mode-select screen and everything that
\* may interleave with it.
NextGrace ==
  \/ \E s \in Sockets, r \in Lobby, n \in Names, ro \in Roles : JoinRoom(s, r, n, ro)
  \/ \E s \in Sockets, r \in Lobby, n \in Names, ro \in Roles, rec \in BOOLEAN :
       ModeSelectJoin(s, r, n, ro, rec)
  \/ \E s \in Sockets, r \in Lobby : LeaveRoom(s, r)
  \/ \E s \in Sockets : Disconnect(s)
  \/ \E s \in Sockets, r \in Lobby : ProceedToModeSelect(s, r)
  \/ \E r \in Lobby : CleanupTimerFires(r)

SpecGrace == InitGrace /\ [][NextGrace]_vars

\* The same events from the matched room, where a pending grace timer
\* eventually fires: the 10 s timeout runs out (index.js:288, 319)
InitTransit == StartFrom(Matched, {1, 2}, MaxGraceEvents)

SpecTransit ==
  InitTransit /\ [][NextGrace]_vars /\ \A r \in Lobby : WF_vars(CleanupTimerFires(r))

\* --------------------------------------------------------- quiz scenarios
\* In the quiz specification a connection always passes its own identity: odd
\* connections are Aki's (owner), even ones Sora's (guest).
NameOf(s) == IF s % 2 = 1 THEN "Aki" ELSE "Sora"

RoleOf(s) == IF s % 2 = 1 THEN "owner" ELSE "guest"

InitQuiz == StartFrom(Boot, {}, MaxQuizEvents)

NextQuiz ==
  \/ \E s \in Sockets, r \in Lobby : JoinRoom(s, r, NameOf(s), RoleOf(s))
  \/ \E s \in Sockets, r \in Lobby : ModeSelectJoin(s, r, NameOf(s), RoleOf(s), FALSE)
  \/ \E s \in Sockets : Disconnect(s)
  \/ \E s \in Sockets : PlayerReady(s)
  \/ \E s \in Sockets, r \in Lobby : SelectQuizMode(s, r)
  \/ \E s \in Sockets, o \in Options, tl \in TimeLefts : SubmitAnswer(s, o, tl)
  \/ \E r \in Lobby, inStore \in BOOLEAN : AdvanceTimerFires(r, inStore)

SpecQuiz == InitQuiz /\ [][NextQuiz]_vars

\* ------------------------------------------------------ two-room scenarios
InitRooms == StartFrom(Boot, {}, MaxRoomEvents)

\* Joining, rejoining, leaving and disconnecting across two room ids: an owner
\* may open a second room while the first one is live.
NextRooms ==
  \/ \E s \in Sockets, r \in RoomIds, n \in Names, ro \in Roles : JoinRoom(s, r, n, ro)
  \/ \E s \in Sockets, r \in RoomIds, n \in Names, ro \in Roles, rec \in BOOLEAN :
       ModeSelectJoin(s, r, n, ro, rec)
  \/ \E s \in Sockets, r \in RoomIds : LeaveRoom(s, r)
  \/ \E s \in Sockets : Disconnect(s)

SpecRooms == InitRooms /\ [][NextRooms]_vars

\* Owner Aki has opened room R1 on connection 1 and left it again
Departed == Quiet(leaveRoom(Quiet(joinRoom(Boot, 1, "R1", "Aki", "owner")), 1, "R1"))

InitStale == StartFrom(Departed, {1}, MaxRoomEvents)

\* the same events after an owner has come and gone
SpecStale == InitStale /\ [][NextRooms]_vars

\* ------------------------------------------------------ learning scenarios
InitLearn == StartFrom(Matched, {1, 2}, MaxLearnEvents)

\* The owner-only events (learning navigation, mode selection, the move to the
\* mode-select screen) sent by any connection to any room id, from a matched
\* room, with the joins, rejoins and disconnects that bind a connection.
NextLearn ==
  \/ \E s \in Sockets, r \in Lobby, n \in Names, ro \in Roles : JoinRoom(s, r, n, ro)
  \/ \E s \in Sockets, r \in RoomIds, n \in Names, ro \in Roles, rec \in BOOLEAN :
       ModeSelectJoin(s, r, n, ro, rec)
  \/ \E s \in Sockets : Disconnect(s)
  \/ \E s \in Sockets, r \in RoomIds : ProceedToModeSelect(s, r)
  \/ \E r \in RoomIds : CleanupTimerFires(r)
  \/ \E s \in Sockets, r \in RoomIds : SelectLearningMode(s, r)
  \/ \E s \in Sockets, r \in RoomIds : SelectQuizMode(s, r)
  \/ \E s \in Sockets, r \in RoomIds, c \in Categories : LearningCategoryChange(s, r, c)
  \/ \E s \in Sockets, r \in RoomIds, c \in Categories, y \in ScrollTops :
       LearningScrollChange(s, r, c, y)
  \/ \E s \in Sockets, r \in RoomIds, c \in Categories, ch \in ChapterIds :
       LearningStoryChange(s, r, c, ch)

SpecLearn == InitLearn /\ [][NextLearn]_vars

\* ------------------------------------------------------- one quiz, played
\* ... both are ready and question 1 has been broadcast
Started == Quiet(playerReady(Quiet(playerReady(Matched, 1)), 2))

InitRun == StartFrom(Started, {1, 2}, 0 - 1)

\* a participant of an active quiz answers the question it has not answered yet
AnswerOnce(s, o, tl) ==
  /\ sock[s].roomId \in DOMAIN rooms
  /\ s \in {rooms[sock[s].roomId].players[i].id :
              i \in 1..Len(rooms[sock[s].roomId].players)}
  /\ rooms[sock[s].roomId].quizState.isActive
  /\ s \notin DOMAIN rooms[sock[s].roomId].quizState.answers
  /\ SubmitAnswer(s, o, tl)

NextRun ==
  \/ \E s \in Sockets, o \in Options, tl \in TimeLefts : AnswerOnce(s, o, tl)
  \/ \E r \in Lobby : AdvanceTimerFires(r, TRUE)

\* Both participants stay connected and answer every question; the 5 s timeout
\* of a reveal runs out (index.js:755-758).
SpecRun ==
  /\ InitRun /\ [][NextRun]_vars
  /\ \A s \in Sockets : WF_vars(\E o \in Options, tl \in TimeLefts : AnswerOnce(s, o, tl))
  /\ \A r \in Lobby : WF_vars(AdvanceTimerFires(r, TRUE))

\* ------------------------------------------------------ the browser side
ServerEvents == {"player_ready", "select_quiz_mode"}

\* a client step: the server is not involved
ClientStep(C, ev) ==
  /\ client' = C
  /\ last' = ev
  /\ UNCHANGED <<rooms, ownerSessions, transitioningOwners, graceTimers,
                 advanceTimers, sock, emitted, logged, crashed, budget>>

\* the caps on the calls of emit a run makes and on its pending reconnect timers
Asked(C) == Len(C.asked) <= MaxAsked /\ C.reconnectPending <= MaxPending

ClientInitialize ==
  /\ Asked(initialize(client))
  /\ ClientStep(initialize(client), "client_initialize")

\* the socket reports 'connect'
ClientConnect ==
  /\ client.socket /\ ~client.isConnected
  /\ ClientStep(onConnect(client), "client_connect")

\* the socket reports 'disconnect'
ClientLinkDown(reason) ==
  /\ client.socket /\ client.isConnected
  /\ Asked(onDisconnect(client, reason))
  /\ ClientStep(onDisconnect(client, reason), "client_link_down")

ClientReconnectTimer ==
  /\ client.reconnectPending > 0
  /\ ClientStep(reconnectTimer(client), "client_reconnect_timer")

ClientEmit(event) ==
  /\ Asked(emit(client, event))
  /\ ClientStep(emit(client, event), "client_emit")

ClientJoinRoom(roomId, playerName) ==
  /\ Asked(clientJoinRoom(client, roomId, playerName))
  /\ ClientStep(clientJoinRoom(client, roomId, playerName), "client_join_room")

ClientLeaveRoom ==
  /\ client.roomId # Null
  /\ Asked(clientLeaveRoom(client))
  /\ ClientStep(clientLeaveRoom(client), "client_leave_room")

ClientDisconnect ==
  /\ client.socket
  /\ Asked(clientDisconnect(client))
  /\ ClientStep(clientDisconnect(client), "client_disconnect")

InitClient == StartFrom(Boot, {}, 0)

NextClient ==
  \/ ClientInitialize
  \/ ClientConnect
  \/ \E reason \in {"io server disconnect", "transport close"} : ClientLinkDown(reason)
  \/ ClientReconnectTimer
  \/ \E e \in ServerEvents : ClientEmit(e)
  \/ \E r \in Lobby, n \in Names : ClientJoinRoom(r, n)
  \/ ClientLeaveRoom
  \/ ClientDisconnect

SpecClient == InitClient /\ [][NextClient]_vars

\* ------------------------------------------------------------------ claims
Ids(players) == {players[i].id : i \in 1..Len(players)}

PairCount(players, playerName, role) ==
  Cardinality({i \in 1..Len(players) :
                 players[i].name = playerName /\ players[i].role = role})

\* C1: every room in the Room Store has at most 2 participants.
C1_AtMostTwoParticipants ==
  \A r \in DOMAIN rooms : Len(rooms[r].players) <= 2

\* C2: no room contains two participants with the same role.
C2_OnePerRole ==
  \A r \in DOMAIN rooms :
    \A i, j \in 1..Len(rooms[r].players) :
      i # j => rooms[r].players[i].role # rooms[r].players[j].role

\* C3: in every room the key set of quizState.scores is the set of the current
\* participants' connection ids.
C3_ScoresMatchParticipants ==
  \A r \in DOMAIN rooms :
    DOMAIN rooms[r].quizState.scores = Ids(rooms[r].players)

\* C4: a join_room by a (playerName, role) pair that already occupies a slot
\* leaves exactly one participant with that pair, bound to the joining
\* connection, not ready, with score 0, and no score entry under the old id.
C4_FreshJoin ==
  [][\A s \in Sockets, r \in RoomIds, n \in Names, ro \in Roles :
       (/\ last' = "join_room"
        /\ r \in DOMAIN rooms
        /\ HasPair(rooms[r].players, n, ro)
        /\ JoinRoom(s, r, n, ro))
       => LET oldId == rooms[r].players[PairIdx(rooms[r].players, n, ro)].id
              now == rooms'[r]
              i == PairIdx(now.players, n, ro)
          IN /\ r \in DOMAIN rooms'
             /\ PairCount(now.players, n, ro) = 1
             /\ now.players[i].id = s
             /\ now.players[i].ready = FALSE
             /\ ScoreOf(now, s) = 0
             /\ oldId # s => oldId \notin DOMAIN now.quizState.scores]_vars

\* C5: a mode_select_join by a (playerName, role) pair that already occupies a
\* slot keeps the entry (same position, same ready flag), changes only its id to
\* the new connection id, moves its score unchanged to the new id, and keeps
\* the participant count.
C5_ReconnectKeepsScore ==
  [][\A s \in Sockets, r \in RoomIds, n \in Names, ro \in Roles, rec \in BOOLEAN :
       (/\ last' \in {"mode_select_join", "mode_select_join_recovery"}
        /\ r \in DOMAIN rooms
        /\ HasPair(rooms[r].players, n, ro)
        /\ ModeSelectJoin(s, r, n, ro, rec))
       => LET i == PairIdx(rooms[r].players, n, ro)
              old == rooms[r].players[i]
              now == rooms'[r]
          IN /\ r \in DOMAIN rooms'
             /\ Len(now.players) = Len(rooms[r].players)
             /\ now.players[i] = [old EXCEPT !.id = s]
             /\ \A j \in 1..Len(now.players) : j # i => now.players[j] = rooms[r].players[j]
             /\ ScoreOf(now, s) = ScoreOf(rooms[r], old.id)]_vars

\* the participant the transition record of room r names, as an index
TransitioningIdx(r) ==
  FirstIndex({i \in 1..Len(rooms[r].players) :
                /\ rooms[r].players[i].role = "owner"
                /\ rooms[r].players[i].name = transitioningOwners[r].ownerName})

\* the owner of room r has sent proceed_to_mode_select and its connection has
\* closed since, the grace timer still pending
OwnerAway(r) ==
  /\ r \in DOMAIN transitioningOwners
  /\ r \in DOMAIN rooms
  /\ graceTimers[r] > 0
  /\ TransitioningIdx(r) # 0
  /\ ~sock[rooms[r].players[TransitioningIdx(r)].id].open

\* names, roles, ready flags and score values of room r are the same after the
\* step, position by position
SameRoster(r) ==
  /\ r \in DOMAIN rooms'
  /\ Len(rooms'[r].players) = Len(rooms[r].players)
  /\ \A i \in 1..Len(rooms[r].players) :
       /\ rooms'[r].players[i].name = rooms[r].players[i].name
       /\ rooms'[r].players[i].role = rooms[r].players[i].role
       /\ rooms'[r].players[i].ready = rooms[r].players[i].ready
       /\ ScoreOf(rooms'[r], rooms'[r].players[i].id) =
            ScoreOf(rooms[r], rooms[r].players[i].id)

\* the disconnect of a transitioning owner changes no room
C6_DisconnectSuppressed ==
  \A s \in Sockets :
    (/\ last' = "disconnect"
     /\ sock[s].roomId \in DOMAIN rooms
     /\ sock[s].roomId \in DOMAIN transitioningOwners
     /\ sock[s].role = "owner"
     /\ transitioningOwners[sock[s].roomId].ownerName = sock[s].playerName
     /\ Disconnect(s))
    => /\ rooms' = rooms
       /\ transitioningOwners' = transitioningOwners
       /\ graceTimers' = graceTimers

\* the owner's mode_select_join on connection s within the grace window
C6_Rejoin(s, r, rec) ==
  (/\ last' \in {"mode_select_join", "mode_select_join_recovery"}
   /\ OwnerAway(r)
   /\ ModeSelectJoin(s, r, transitioningOwners[r].ownerName, "owner", rec))
  => /\ SameRoster(r)
     /\ r \notin DOMAIN transitioningOwners'
     /\ graceTimers'[r] = 0

DistinctIds(r) ==
  \A i, j \in 1..Len(rooms[r].players) :
    i # j => rooms[r].players[i].id # rooms[r].players[j].id

C7_GraceExpiry ==
  [][\A r \in RoomIds :
       (/\ last' = "cleanup_timer"
        /\ r \in DOMAIN transitioningOwners
        /\ r \in DOMAIN rooms
        /\ CleanupTimerFires(r))
       => LET i == TransitioningIdx(r)
              before == rooms[r].players
              rest == IF i = 0 THEN before
                      ELSE SubSeq(before, 1, i - 1) \o SubSeq(before, i + 1, Len(before))
          IN /\ r \notin DOMAIN transitioningOwners'
             /\ graceTimers'[r] = 0
             /\ (r \in DOMAIN rooms') = (rest # <<>>)
             /\ r \in DOMAIN rooms' =>
                  /\ rooms'[r].players = rest
                  /\ i # 0 => before[i].id \notin DOMAIN rooms'[r].quizState.scores
                  /\ \A id \in DOMAIN rooms[r].quizState.scores :
                       (i = 0 \/ id # before[i].id) =>
                         ScoreOf(rooms'[r], id) = ScoreOf(rooms[r], id)]_vars

\* the grace timer has evicted the owner and the guest stays in the room
C7_OwnerEvicted ==
  /\ last = "cleanup_timer"
  /\ "owner_evicted" \in logged
  /\ "R1" \in DOMAIN rooms
  /\ Len(rooms["R1"].players) = 1
  /\ rooms["R1"].players[1].role = "guest"
  /\ "R1" \notin DOMAIN transitioningOwners

\* C8: a reveal (a step that schedules a round-advance timer for a room) only
\* happens while no round-advance timer of that room is pending, so each round
\* is revealed once.
C8_RevealOncePerRound ==
  [][\A r \in RoomIds :
       advanceTimers'[<<r, TRUE>>] > advanceTimers[<<r, TRUE>>]
       => advanceTimers[<<r, TRUE>>] = 0]_vars

\* C9: at a reveal each participant's score grows by 100 + max(0, timeLeft) if
\* its recorded option is the question's correct answer and by 0 otherwise.
C9_AwardAtReveal ==
  [][\A r \in RoomIds :
       (/\ last' = "submit_answer"
        /\ r \in DOMAIN rooms /\ r \in DOMAIN rooms'
        /\ advanceTimers'[<<r, TRUE>>] > advanceTimers[<<r, TRUE>>])
       => \A i \in 1..Len(rooms[r].players) :
            LET id == rooms[r].players[i].id
                answers == rooms'[r].quizState.answers
                gain == IF id \in DOMAIN answers /\ answers[id].option = 1
                        THEN 100 + (IF answers[id].timeLeft > 0
                                    THEN answers[id].timeLeft ELSE 0)
                        ELSE 0
            IN ScoreOf(rooms'[r], id) = ScoreOf(rooms[r], id) + gain]_vars

\* C10: a quiz goes from idle to active only in a room of exactly 2 ready
\* participants, with round 1 and the first question loaded.
C10_ActivationOnlyWhenReady ==
  [][\A r \in RoomIds :
       (/\ r \in DOMAIN rooms /\ r \in DOMAIN rooms'
        /\ ~rooms[r].quizState.isActive
        /\ rooms'[r].quizState.isActive)
       => /\ Len(rooms'[r].players) = 2
          /\ \A i \in 1..Len(rooms'[r].players) : rooms'[r].players[i].ready
          /\ rooms'[r].quizState.round = 1
          /\ rooms'[r].quizState.currentQuestion = 1]_vars

\* the events named ev among those the last handler emitted
Emitted(ev) == {i \in 1..Len(emitted) : emitted[i].ev = ev}

\* scores is a sequence of numbers that never increases
NonIncreasing(results) ==
  \A i \in 1..Len(results) :
    /\ results[i].score >= 0
    /\ i > 1 => results[i - 1].score >= results[i].score

\* C11: when the round-advance timer calls nextQuestion with a round beyond the
\* last question, the quiz becomes inactive, no new_question is broadcast, and
\* one quiz_finished is broadcast with one result per current participant, in
\* non-increasing order of score, its winner being the first result.
C11_FinishReport ==
  [][\A r \in RoomIds :
       (/\ last' = "advance_timer"
        /\ r \in DOMAIN rooms
        /\ rooms[r].quizState.round + 1 > NumQuestions
        /\ AdvanceTimerFires(r, TRUE))
       => /\ ~rooms'[r].quizState.isActive
          /\ Emitted("new_question")' = {}
          /\ Cardinality(Emitted("quiz_finished")') = 1
          /\ \A k \in Emitted("quiz_finished")' :
               LET report == emitted'[k].data
                   players == rooms'[r].players
               IN /\ Len(report.results) = Len(players)
                  /\ \A n \in Names :
                       Cardinality({i \in 1..Len(players) : players[i].name = n}) =
                       Cardinality({i \in 1..Len(report.results) :
                                      report.results[i].playerName = n})
                  /\ NonIncreasing(report.results)
                  /\ report.results # <<>> /\ report.winner = report.results[1]]_vars

\* C12: a join_room as owner under a name whose session points at another room
\* that is still in the store first emits room_closed_by_owner to the old room,
\* removes the old room, appends its id to previousRoomIds and makes the new
\* room id the session's currentRoomId.
C12_OldRoomClosed ==
  [][\A s \in Sockets, r \in RoomIds, n \in Names :
       (/\ last' = "join_room"
        /\ n \in DOMAIN ownerSessions
        /\ ownerSessions[n].currentRoomId # r
        /\ ownerSessions[n].currentRoomId \in DOMAIN rooms
        /\ JoinRoom(s, r, n, "owner"))
       => LET old == ownerSessions[n].currentRoomId
          IN /\ emitted' # <<>>
             /\ emitted'[1] = ToOthers("room_closed_by_owner", old, s, <<n, r>>)
             /\ old \notin DOMAIN rooms'
             /\ n \in DOMAIN ownerSessions'
             /\ ownerSessions'[n].currentRoomId = r
             /\ ownerSessions'[n].previousRoomIds =
                  Append(ownerSessions[n].previousRoomIds, old)]_vars

\* Aki has opened R2 while R1, with a guest in it, was live
C12_SecondRoomOpened ==
  /\ last = "join_room"
  /\ "old_room_closed" \in logged
  /\ "R1" \notin DOMAIN rooms
  /\ "R2" \in DOMAIN rooms
  /\ "Aki" \in DOMAIN ownerSessions
  /\ ownerSessions["Aki"] = [currentRoomId |-> "R2", previousRoomIds |-> <<"R1">>]
  /\ \E s \in Sockets : ~sock[s].open /\ sock[s].role = "guest"

\* the rooms of the store with an owner participant named n
OwnedRooms(n) ==
  {r \in DOMAIN rooms :
     \E i \in 1..Len(rooms[r].players) :
       rooms[r].players[i].role = "owner" /\ rooms[r].players[i].name = n}

\* C13: for each display name at most one room of the store contains an owner
\* participant with that name.
C13_OneRoomPerOwner ==
  \A n \in Names : Cardinality(OwnedRooms(n)) <= 1

\* connection s is the connection of an owner participant of room r
IsOwnerParticipant(s, r) ==
  /\ r \in DOMAIN rooms
  /\ \E i \in 1..Len(rooms[r].players) :
       rooms[r].players[i].id = s /\ rooms[r].players[i].role = "owner"

\* the step changes the learningState of room r
LearningChanged(r) ==
  /\ r \in DOMAIN rooms
  /\ r \in DOMAIN rooms'
  /\ rooms'[r].learningState # rooms[r].learningState

LearningEvents ==
  {"learning_category_change", "learning_scroll_change", "learning_story_change",
   "select_learning_mode"}

\* C14: the learningState of a room changes only through a learning event sent
\* by the connection of the room's owner participant, and only that connection
\* starts a grace window.
C14_OwnerOnlyLearning ==
  [][/\ \A r \in RoomIds : LearningChanged(r) => last' \in LearningEvents
     /\ \A s \in Sockets, r \in RoomIds :
          /\ (LearningChanged(r) /\ SelectLearningMode(s, r)) => IsOwnerParticipant(s, r)
          /\ ("transition_started" \in logged' /\ ProceedToModeSelect(s, r))
               => IsOwnerParticipant(s, r)
          /\ \A c \in Categories :
               /\ (LearningChanged(r) /\ LearningCategoryChange(s, r, c))
                    => IsOwnerParticipant(s, r)
               /\ \A y \in ScrollTops :
                    (LearningChanged(r) /\ LearningScrollChange(s, r, c, y))
                      => IsOwnerParticipant(s, r)
               /\ \A ch \in ChapterIds :
                    (LearningChanged(r) /\ LearningStoryChange(s, r, c, ch))
                      => IsOwnerParticipant(s, r)]_vars

\* the step is one of the six owner-only events, sent by s for room r
OwnerOnlyEvent(s, r) ==
  \/ ProceedToModeSelect(s, r)
  \/ SelectLearningMode(s, r)
  \/ SelectQuizMode(s, r)
  \/ \E c \in Categories :
       \/ LearningCategoryChange(s, r, c)
       \/ \E y \in ScrollTops : LearningScrollChange(s, r, c, y)
       \/ \E ch \in ChapterIds : LearningStoryChange(s, r, c, ch)

\* C15: an owner-only event from a connection whose bound role is not owner, or
\* whose bound room id is not the event's roomId, changes no room, no
\* transition record or grace timer and no owner session, and emits nothing.
C15_RejectedSilently ==
  [][\A s \in Sockets, r \in RoomIds :
       (/\ sock[s].role # "owner" \/ sock[s].roomId # r
        /\ OwnerOnlyEvent(s, r))
       => /\ rooms' = rooms
          /\ transitioningOwners' = transitioningOwners
          /\ graceTimers' = graceTimers
          /\ ownerSessions' = ownerSessions
          /\ emitted' = <<>>]_vars

\* the guest's learning_category_change has been dropped
C15_GuestIgnored ==
  /\ last = "learning_category_change"
  /\ emitted = <<>>
  /\ "category_changed" \notin logged
  /\ "R1" \in DOMAIN rooms
  /\ rooms["R1"].learningState = NewRoom.learningState
  /\ Len(rooms["R1"].players) = 2

\* C16: a join_room answered with room_full emits nothing but room_full to the
\* joining connection and leaves the addressed room (participants, scores, quiz
\* state, learning state) as it was.
C16_RoomFullNoEffect ==
  [][\A s \in Sockets, r \in RoomIds, n \in Names, ro \in Roles :
       (/\ r \in DOMAIN rooms
        /\ "room_full" \in logged'
        /\ JoinRoom(s, r, n, ro))
       => /\ emitted' = <<ToSocket("room_full", s, <<>>)>>
          /\ r \in DOMAIN rooms'
          /\ rooms'[r] = rooms[r]]_vars

\* C17: a mode_select_join without the recovery flag whose (playerName, role)
\* matches no participant of the existing room, while the role is held by
\* another participant or the room has 2 participants, adds no participant and
\* changes no participant and no score entry.
C17_StaleIdentityDropped ==
  [][\A s \in Sockets, r \in RoomIds, n \in Names, ro \in Roles :
       (/\ r \in DOMAIN rooms
        /\ ~HasPair(rooms[r].players, n, ro)
        /\ \/ \E i \in 1..Len(rooms[r].players) : rooms[r].players[i].role = ro
           \/ Len(rooms[r].players) >= 2
        /\ ModeSelectJoin(s, r, n, ro, FALSE))
       => /\ r \in DOMAIN rooms'
          /\ rooms'[r].players = rooms[r].players
          /\ rooms'[r].quizState.scores = rooms[r].quizState.scores]_vars

\* Sora's attempt to come back as owner of Aki's room has been dropped
C17_StaleDropped ==
  /\ last = "mode_select_join"
  /\ "stale_identity" \in logged
  /\ "R1" \in DOMAIN rooms
  /\ Len(rooms["R1"].players) = 1
  /\ rooms["R1"].players[1].name = "Aki"
  /\ rooms["R1"].players[1].role = "owner"

\* C18: a mode_select_join for a room id that is not in the store, without the
\* recovery flag, emits room_not_found to the sender and changes no room, no
\* owner session and no transition record; with the recovery flag it creates
\* the room with the default quiz and learning state.
C18_UnknownRoom ==
  [][\A s \in Sockets, r \in RoomIds, n \in Names, ro \in Roles :
       /\ (r \notin DOMAIN rooms /\ ModeSelectJoin(s, r, n, ro, FALSE))
          => /\ emitted' = <<ToSocket("room_not_found", s, <<>>)>>
             /\ rooms' = rooms
             /\ ownerSessions' = ownerSessions
             /\ transitioningOwners' = transitioningOwners
             /\ graceTimers' = graceTimers
       /\ (r \notin DOMAIN rooms /\ ModeSelectJoin(s, r, n, ro, TRUE))
          => /\ r \in DOMAIN rooms'
             /\ rooms'[r].quizState =
                  [isActive |-> FALSE, currentQuestion |-> 0, scores |-> EmptyMap,
                   round |-> 0, answers |-> EmptyMap]
             /\ rooms'[r].learningState =
                  [currentCategory |-> "menu", scrollPosition |-> EmptyMap,
                   isActive |-> FALSE, selectedStory |-> EmptyMap]
             /\ Emitted("room_not_found")' = {}]_vars

\* a mode_select_join for the room the last participant had left was answered
\* with room_not_found
C18_NotFound ==
  /\ last = "mode_select_join"
  /\ "room_not_found" \in logged
  /\ "R1" \notin DOMAIN rooms
  /\ "Aki" \in DOMAIN ownerSessions
  /\ emitted # <<>> /\ emitted[1].ev = "room_not_found"

\* C19: no handler and no timer callback ever raises an uncaught error.
C19_NoUncaughtError == ~crashed

\* C20: a grace timer or a round-advance timer that fires after the room it was
\* scheduled for has left the store changes no room of the store and emits
\* nothing, also when a new room exists under the same id; and a firing uses
\* up the timer.
C20_LateTimersHarmless ==
  [][\A r \in RoomIds :
       /\ (/\ r \in DOMAIN transitioningOwners
           /\ transitioningOwners[r].roomGone
           /\ CleanupTimerFires(r))
          => /\ rooms' = rooms
             /\ emitted' = <<>>
             /\ graceTimers'[r] = graceTimers[r] - 1
       /\ AdvanceTimerFires(r, FALSE)
          => /\ rooms' = rooms
             /\ emitted' = <<>>
             /\ advanceTimers'[<<r, FALSE>>] = advanceTimers[<<r, FALSE>>] - 1]_vars

C22_SessionsPointAtRooms ==
  \A n \in DOMAIN ownerSessions : ownerSessions[n].currentRoomId \in DOMAIN rooms

\* C23: between event handlers every room in the room store has at least one
\* participant.
C23_NoEmptyRoom ==
  \A r \in DOMAIN rooms : rooms[r].players # <<>>

\* a room an owner had opened and left, deleted for being empty, is re-created
\* by a guest's recovery mode_select_join and holds that guest
C23_RecreatedWithParticipant ==
  /\ last = "mode_select_join_recovery"
  /\ "room_recreated" \in logged
  /\ \E r \in DOMAIN rooms, n \in DOMAIN ownerSessions :
       /\ ownerSessions[n].currentRoomId = r
       /\ Len(rooms[r].players) = 1
       /\ rooms[r].players[1].role = "guest"

\* the disconnect of connection s is held back by the grace window
Suppressed(s) ==
  /\ sock[s].role = "owner"
  /\ sock[s].roomId \in DOMAIN transitioningOwners
  /\ transitioningOwners[sock[s].roomId].ownerName = sock[s].playerName

\* the participants without the one at position i
Without(players, i) ==
  SubSeq(players, 1, i - 1) \o SubSeq(players, i + 1, Len(players))

\* the disconnect of participant s of room r removed that participant and its
\* score entry, deleted the room iff nobody remains, and otherwise emitted
\* player_disconnected then room_status to the room and kept the others
C24_Removal(s, r) ==
  LET before == rooms[r].players
      i == FirstIndex({k \in 1..Len(before) : before[k].id = s})
      rest == Without(before, i)
  IN /\ (r \in DOMAIN rooms') = (rest # <<>>)
     /\ r \in DOMAIN rooms' =>
          /\ rooms'[r].players = rest
          /\ s \notin DOMAIN rooms'[r].quizState.scores
          /\ \A id \in DOMAIN rooms[r].quizState.scores \ {s} :
               ScoreOf(rooms'[r], id) = ScoreOf(rooms[r], id)
          /\ Len(emitted') = 2
          /\ emitted'[1] = ToRoom("player_disconnected", r, <<before[i].name, before[i].role>>)
          /\ emitted'[2] = ToRoom("room_status", r, StatusOf(rest))

\* C24: a disconnect that the grace window does not suppress, from a
\* connection that is a participant of its bound room, removes exactly that
\* participant and its score entry, deletes the room iff no participant
\* remains, and otherwise emits player_disconnected followed by room_status to
\* the room and keeps the other participant and its score unchanged.
C24_DisconnectRemovesOne ==
  [][\A s \in Sockets :
       (/\ last' = "disconnect"
        /\ sock[s].roomId \in DOMAIN rooms
        /\ s \in Ids(rooms[sock[s].roomId].players)
        /\ ~Suppressed(s)
        /\ Disconnect(s))
       => C24_Removal(s, sock[s].roomId)]_vars

\* C25: an owner connection's disconnect deletes the owner session of its
\* bound name only if that session's currentRoomId is the connection's bound
\* room; a session that points at another room, and every session of another
\* name, is left as it was.
C25_GuardedSessionRemoval ==
  [][\A s \in Sockets :
       (last' = "disconnect" /\ Disconnect(s))
       => \A n \in DOMAIN ownerSessions :
            \/ /\ sock[s].role = "owner"
               /\ sock[s].playerName = n
               /\ ownerSessions[n].currentRoomId = sock[s].roomId
            \/ /\ n \in DOMAIN ownerSessions'
               /\ ownerSessions'[n] = ownerSessions[n]]_vars

\* an owner connection bound to one room has disconnected from it, emptying
\* it, while the session of its name points at another room and is still there
C25_StaleRemovalSpared ==
  /\ last = "disconnect"
  /\ "room_deleted" \in logged
  /\ \E s \in Sockets :
       /\ ~sock[s].open
       /\ sock[s].role = "owner"
       /\ sock[s].playerName \in DOMAIN ownerSessions
       /\ sock[s].roomId \notin DOMAIN rooms
       /\ ownerSessions[sock[s].playerName].currentRoomId # sock[s].roomId

\* C26: a submit_answer triggers the reveal (question_result is broadcast to
\* room r) only when the room has two participants and the answers of the
\* round hold an entry under the current connection id of each of them.
C26_RevealNeedsBothParticipants ==
  [][\A r \in RoomIds :
       (/\ last' = "submit_answer"
        /\ r \in DOMAIN rooms /\ r \in DOMAIN rooms'
        /\ \E i \in Emitted("question_result")' : emitted'[i].target = <<r>>)
       => /\ Len(rooms[r].players) = 2
          /\ Ids(rooms[r].players) \subseteq DOMAIN rooms'[r].quizState.answers]_vars

\* C27: the score of every participant is a non-negative integer in every
\* state, and while a quiz stays active the score of a participant identity
\* (playerName, role) never decreases from one step to the next.
C27_ScoresNeverDecrease ==
  [][\A r \in RoomIds :
       r \in DOMAIN rooms' =>
         \A j \in 1..Len(rooms'[r].players) :
           LET q == rooms'[r].players[j] IN
           /\ ScoreOf(rooms'[r], q.id) >= 0
           /\ (/\ r \in DOMAIN rooms
               /\ rooms[r].quizState.isActive
               /\ rooms'[r].quizState.isActive)
              => \A i \in 1..Len(rooms[r].players) :
                   LET p == rooms[r].players[i] IN
                   (p.name = q.name /\ p.role = q.role)
                   => ScoreOf(rooms'[r], q.id) >= ScoreOf(rooms[r], p.id)]_vars

\* C28: at any time a room id has at most one pending grace timer (and, the
\* records being keyed by room id, at most one transition record), and every
\* transition record is eventually removed when pending grace timers
\* eventually fire.
C28_RecordsRemoved ==
  /\ [](\A r \in RoomIds : graceTimers[r] <= 1)
  /\ \A r \in Lobby :
       (r \in DOMAIN transitioningOwners) ~> (r \notin DOMAIN transitioningOwners)

\* the grace timer has fired for a room that was deleted in the meantime, and
\* removed the record left behind
C28_OrphanRecordRemoved ==
  /\ last = "cleanup_timer"
  /\ rooms = EmptyMap
  /\ transitioningOwners = EmptyMap
  /\ "owner_evicted" \notin logged
  /\ \A r \in RoomIds : graceTimers[r] = 0

\* the quiz of room r is over after as many rounds as there are questions
Finished(r) ==
  /\ r \in DOMAIN rooms
  /\ ~rooms[r].quizState.isActive
  /\ rooms[r].quizState.round = NumQuestions + 1

\* C29: in a started quiz whose two participants stay connected and answer
\* every broadcast question once, with reveal timers eventually firing, the
\* quiz eventually finishes; quiz_finished is broadcast by the step that makes
\* the quiz inactive, after exactly NumQuestions rounds, each question having
\* been broadcast once in the order of the rounds.
C29_QuizFinishes ==
  /\ \A r \in Lobby :
       (r \in DOMAIN rooms /\ rooms[r].quizState.isActive) ~> Finished(r)
  /\ [][\A r \in Lobby :
          /\ (\E i \in Emitted("quiz_finished")' : emitted'[i].target = <<r>>)
             <=> (rooms[r].quizState.isActive /\ Finished(r)')
          /\ (\E i \in Emitted("new_question")' : emitted'[i].target = <<r>>)
             => /\ rooms'[r].quizState.round = rooms[r].quizState.round + 1
                /\ rooms'[r].quizState.round \in 1..NumQuestions
                /\ rooms'[r].quizState.currentQuestion = rooms'[r].quizState.round]_vars

\* the quiz is over: the last reveal timer has fired, quiz_finished went to the
\* room and the winner answered both questions correctly with 10 s left
C29_QuizOver ==
  /\ last = "advance_timer"
  /\ Finished("R1")
  /\ Emitted("quiz_finished") # {}
  /\ emitted[1].data.winner.score = NumQuestions * (BaseScore + 10)

\* C30: while the quiz of a room is active its round never decreases and a
\* question is broadcast only for a round that has advanced; in particular a
\* player_ready received while the quiz is running leaves the round and the
\* collected answers as they were.
C30_NoRestart ==
  [][\A r \in RoomIds :
       (/\ r \in DOMAIN rooms /\ r \in DOMAIN rooms'
        /\ rooms[r].quizState.isActive)
       => /\ rooms'[r].quizState.round >= rooms[r].quizState.round
          /\ (\E i \in Emitted("new_question")' : emitted'[i].target = <<r>>)
             => rooms'[r].quizState.round > rooms[r].quizState.round
          /\ last' = "player_ready"
             => rooms'[r].quizState.answers = rooms[r].quizState.answers]_vars

\* C31: the firing of a grace timer never removes an owner participant whose
\* connection is still open: such a participant is in the room afterwards.
C31_OpenOwnerNotEvicted ==
  [][\A r \in RoomIds :
       (/\ last' = "cleanup_timer"
        /\ r \in DOMAIN rooms
        /\ CleanupTimerFires(r))
       => \A i \in 1..Len(rooms[r].players) :
            LET p == rooms[r].players[i] IN
            (p.role = "owner" /\ sock[p.id].open)
            => /\ r \in DOMAIN rooms'
               /\ \E j \in 1..Len(rooms'[r].players) : rooms'[r].players[j] = p]_vars

\* C32: an owner's join_room closes (deletes) another room only if that room
\* holds an owner participant with the joining owner's name.
C32_ClosesOwnRoomOnly ==
  [][\A s \in Sockets, newRoomId \in RoomIds, n \in Names, r \in RoomIds :
       (/\ last' = "join_room"
        /\ r # newRoomId
        /\ r \in DOMAIN rooms
        /\ r \notin DOMAIN rooms'
        /\ JoinRoom(s, newRoomId, n, "owner"))
       => \E i \in 1..Len(rooms[r].players) :
            rooms[r].players[i].role = "owner" /\ rooms[r].players[i].name = n]_vars

\* connection s is bound to room r under a name and role whose participant
\* entry now carries another connection's id
Superseded(s, r) ==
  /\ sock[s].roomId = r
  /\ r \in DOMAIN rooms
  /\ s \notin Ids(rooms[r].players)
  /\ \E i \in 1..Len(rooms[r].players) :
       /\ rooms[r].players[i].name = sock[s].playerName
       /\ rooms[r].players[i].role = sock[s].role

\* C33: the disconnect of a superseded connection leaves the participants and
\* scores of its room and the owner sessions unchanged.
C33_SupersededDisconnect ==
  [][\A s \in Sockets, r \in RoomIds :
       (/\ last' = "disconnect"
        /\ Superseded(s, r)
        /\ Disconnect(s))
       => /\ r \in DOMAIN rooms'
          /\ rooms'[r].players = rooms[r].players
          /\ rooms'[r].quizState.scores = rooms[r].quizState.scores
          /\ ownerSessions' = ownerSessions]_vars

\* C34: an owner's join_room that is answered with room_full leaves the server
\* state unchanged: every room, every owner session and every connection's
\* binding is as before, and no connection was closed.
C34_RejectedOwnerJoin ==
  [][\A s \in Sockets, r \in RoomIds, n \in Names :
       (/\ last' = "join_room"
        /\ Emitted("room_full")' # {}
        /\ JoinRoom(s, r, n, "owner"))
       => /\ rooms' = rooms
          /\ ownerSessions' = ownerSessions
          /\ \A u \in Sockets :
               /\ sock'[u].open = sock[u].open
               /\ sock'[u].roomId = sock[u].roomId
               /\ sock'[u].playerName = sock[u].playerName
               /\ sock'[u].role = sock[u].role]_vars

\* C35: a server event passed to SocketManager.emit while the socket exists
\* is never dropped: once the socket is connected, every such event has been
\* sent to the server, once each and in the order of the calls.
C35_NothingDropped ==
  (client.socket /\ client.isConnected) => client.sent = client.asked
====
